---- MODULE Spec2Model ----
(***************************************************************************)
(* diagnosys: a terminal dashboard over host metrics.                      *)
(*                                                                         *)
(* The module models                                                       *)
(*   - format_bytes (three copies: the auto-refresh TUI in src/recon.py,   *)
(*     the plain TUI in src/tui.py, the monolithic script in               *)
(*     src/__main__.py), with Python's int -> float conversion and the     *)
(*     ".2f" formatting computed on exact binary values;                   *)
(*   - the run loops of the three front ends, with the auto-refresh view   *)
(*     and its render lock;                                                *)
(*   - the collectors the views call.                                      *)
(*                                                                         *)
(* Byte counts do not fit TLC's 32-bit integers, so a natural number is a  *)
(* little-endian sequence of base-1024 limbs without leading zero limbs    *)
(* (<<>> is 0, <<512, 1>> is 1536).                                        *)
(***************************************************************************)
EXTENDS Integers, Sequences, FiniteSets, TLC

VARIABLES
    fb_n,          \* format_bytes: the byte count
    fb_out,        \* format_bytes: the result of each copy
    variant,       \* which front end runs: "recon" (auto-refresh TUI), "tui", "main"
    pc,            \* where run() is
    running,       \* self.running
    current_view,  \* self.current_view
    lock,          \* self.lock: "free" or "held"
    choice,        \* the last menu selection
    sec,           \* collector calls of the current render that have returned
    sections,      \* what each of them produced: "ok" or "degraded"
    slept,         \* time spent in time.sleep(self.refresh_interval)
    ticks,         \* re-renders of the current auto-refresh view
    renders,       \* completed renders since the last selection
    error_shown,   \* the "Error: ..." message is on screen
    last,          \* the last step: [ev |-> what happened, at |-> pc before it]
    denials,       \* access-denied collector calls in the current render
    in_gv,         \* executions of generate_view inside "with self.lock"
    elapsed,       \* time the render in progress has taken
    gv_call,       \* "first" (the Live(...) argument) or "tick" (live.update)
    sp_visible,    \* scan_processes: the processes visible to process_iter
    sp_result,     \* scan_processes: what the call returned or raised
    sd_root,       \* scan_directory: what is at the path
    sd_result,     \* scan_directory: what the call returned or raised
    sd_shown,      \* the line the directory-scan view prints
    di_partitions, \* get_disk_info: the mounted partitions
    di_result,     \* get_disk_info: the result of each copy
    nc_query,      \* scan_network_connections: what psutil.net_connections does
    nc_result,     \* scan_network_connections: what the call returned or raised
    fw_probe,      \* get_firmware_info: what running dmidecode does
    fw_result,     \* get_firmware_info: what the call returned or raised
    sw_probes,     \* get_software_inventory: what running each manager does
    sw_result,     \* get_software_inventory: what the call returned or raised
    sw_shown,      \* what the software-inventory view prints
    lp_listening,  \* what ServerRecon.scan_listening_ports returned
    lp_shown       \* the listening-port table of each front end that has one

fmtVars == <<fb_n, fb_out>>

runVars == <<variant, pc, running, current_view, lock, choice, sec, sections,
             slept, ticks, renders, error_shown, last, denials, in_gv, elapsed,
             gv_call>>

procVars == <<sp_visible, sp_result>>

dirVars == <<sd_root, sd_result, sd_shown>>

diskVars == <<di_partitions, di_result>>

netVars == <<nc_query, nc_result>>

fwVars == <<fw_probe, fw_result, sw_probes, sw_result, sw_shown>>

portVars == <<lp_listening, lp_shown>>

vars == <<fb_n, fb_out, variant, pc, running, current_view, lock, choice, sec,
          sections, slept, ticks, renders, error_shown, last, denials, in_gv,
          elapsed, gv_call, sp_visible, sp_result, sd_root, sd_result,
          sd_shown, di_partitions, di_result, nc_query, nc_result, fw_probe,
          fw_result, sw_probes, sw_result, sw_shown, lp_listening, lp_shown>>

\* the variables a specification of one part leaves alone
nonFmtVars == <<runVars, procVars, dirVars, diskVars, netVars, fwVars,
               portVars>>

nonRunVars == <<fmtVars, procVars, dirVars, diskVars, netVars, fwVars,
               portVars>>

nonProcVars == <<fmtVars, runVars, dirVars, diskVars, netVars, fwVars,
               portVars>>

nonDirVars == <<fmtVars, runVars, procVars, diskVars, netVars, fwVars,
               portVars>>

nonDiskVars == <<fmtVars, runVars, procVars, dirVars, netVars, fwVars,
               portVars>>

nonNetVars == <<fmtVars, runVars, procVars, dirVars, diskVars, fwVars,
               portVars>>

nonPortVars == <<fmtVars, runVars, procVars, dirVars, diskVars, netVars,
                fwVars>>

nonFwVars == <<fmtVars, runVars, procVars, dirVars, diskVars, netVars,
               portVars>>

(***************************************************************************)
(* Bounds.                                                                 *)
(***************************************************************************)
MaxLimbs == 7

\* ticks and renders are counted up to MaxTicks, then stay there
MaxTicks == 3

\* the time of one render is counted up to MaxElapsed, then stays there
MaxElapsed == 3

\* process lists: every list of up to MaxShort processes, and patterned
\* lists of up to DisplayCount + MaxExtra processes
MaxShort == 3

MaxExtra == 2

\* memory percentages are 0..MaxMem
MaxMem == 2

(***************************************************************************)
(* Natural numbers as limb sequences.                                      *)
(***************************************************************************)
Base == 1024

BitsPerLimb == 10

MantissaBits == 53

Max(a, b) == IF a >= b THEN a ELSE b

Min(a, b) == IF a <= b THEN a ELSE b

Pow2Small(r) == 2 ^ r

RECURSIVE Norm(_)
Norm(s) ==
    IF s = <<>> THEN <<>>
    ELSE IF s[Len(s)] = 0 THEN Norm(SubSeq(s, 1, Len(s) - 1))
    ELSE s

Limb(s, i) == IF i >= 1 /\ i <= Len(s) THEN s[i] ELSE 0

Zeros(k) == [i \in 1..k |-> 0]

RECURSIVE AddFrom(_, _, _, _)
AddFrom(a, b, i, c) ==
    IF i > Len(a) /\ i > Len(b)
    THEN (IF c = 0 THEN <<>> ELSE <<c>>)
    ELSE LET t == Limb(a, i) + Limb(b, i) + c
         IN  <<t % Base>> \o AddFrom(a, b, i + 1, t \div Base)

Add(a, b) == Norm(AddFrom(a, b, 1, 0))

RECURSIVE SubFrom(_, _, _, _)
SubFrom(a, b, i, brw) ==
    IF i > Len(a) THEN <<>>
    ELSE LET t == Limb(a, i) - Limb(b, i) - brw
         IN  IF t < 0
             THEN <<t + Base>> \o SubFrom(a, b, i + 1, 1)
             ELSE <<t>> \o SubFrom(a, b, i + 1, 0)

\* a - b for a >= b
Sub(a, b) == Norm(SubFrom(a, b, 1, 0))

RECURSIVE MulFrom(_, _, _, _)
MulFrom(a, c, i, carry) ==
    IF i > Len(a)
    THEN (IF carry = 0 THEN <<>>
          ELSE <<carry % Base>> \o MulFrom(a, c, i, carry \div Base))
    ELSE LET t == a[i] * c + carry
         IN  <<t % Base>> \o MulFrom(a, c, i + 1, t \div Base)

\* a * c for a small factor c
MulSmall(a, c) == Norm(MulFrom(a, c, 1, 0))

RECURSIVE CmpAt(_, _, _)
CmpAt(a, b, i) ==
    IF i = 0 THEN 0
    ELSE IF a[i] > b[i] THEN 1
    ELSE IF a[i] < b[i] THEN -1
    ELSE CmpAt(a, b, i - 1)

\* -1, 0, 1 as a < b, a = b, a > b (both normalized)
Cmp(a, b) ==
    IF Len(a) > Len(b) THEN 1
    ELSE IF Len(a) < Len(b) THEN -1
    ELSE CmpAt(a, b, Len(a))

\* a * 1024^k
ShiftUp(a, k) == IF a = <<>> THEN <<>> ELSE Zeros(k) \o a

\* a div 1024^k
ShiftDown(a, k) == IF Len(a) <= k THEN <<>> ELSE SubSeq(a, k + 1, Len(a))

\* a mod 1024^k
LowLimbs(a, k) == Norm(SubSeq(a, 1, Min(k, Len(a))))

\* 2^d
Pow2(d) == Zeros(d \div BitsPerLimb) \o <<Pow2Small(d % BitsPerLimb)>>

\* a mod 2^d
Mod2(a, d) ==
    LET q == d \div BitsPerLimb
        r == d % BitsPerLimb
    IN  Norm(SubSeq(a, 1, Min(q, Len(a))) \o <<Limb(a, q + 1) % Pow2Small(r)>>)

\* bit d of a (bit 0 is the lowest)
Bit(a, d) ==
    (Limb(a, d \div BitsPerLimb + 1) \div Pow2Small(d % BitsPerLimb)) % 2

BitLenSmall(x) == CHOOSE b \in 1..BitsPerLimb : Pow2Small(b - 1) <= x /\ x < Pow2Small(b)

BitLen(a) ==
    IF a = <<>> THEN 0
    ELSE BitsPerLimb * (Len(a) - 1) + BitLenSmall(a[Len(a)])

RECURSIVE DivSmallAt(_, _, _, _)
DivSmallAt(a, c, i, rem) ==
    IF i = 0 THEN <<>>
    ELSE LET t == rem * Base + a[i]
         IN  DivSmallAt(a, c, i - 1, t % c) \o <<t \div c>>

\* a div c and a mod c for a small divisor c
DivSmall(a, c) == Norm(DivSmallAt(a, c, Len(a), 0))

RECURSIVE ModSmallAt(_, _, _, _)
ModSmallAt(a, c, i, rem) ==
    IF i = 0 THEN rem
    ELSE ModSmallAt(a, c, i - 1, (rem * Base + a[i]) % c)

ModSmall(a, c) == ModSmallAt(a, c, Len(a), 0)

RECURSIVE DecStr(_)
DecStr(a) ==
    IF a = <<>> THEN ""
    ELSE DecStr(DivSmall(a, 10)) \o ToString(ModSmall(a, 10))

\* str() of a natural number
Str(a) == IF a = <<>> THEN "0" ELSE DecStr(a)

(***************************************************************************)
(* Python numbers in format_bytes.                                         *)
(*                                                                         *)
(* bytes_val starts as an int.  "bytes_val < 1024.0" compares an int with  *)
(* a float exactly.  "bytes_val /= 1024.0" converts an int to the nearest  *)
(* double (53 significant bits, ties to even) and divides; dividing a      *)
(* double by 1024 only changes its exponent and is exact.  The value in    *)
(* the loop is therefore m / 1024^e for a natural m and the number e of    *)
(* divisions made.                                                         *)
(***************************************************************************)

\* float(n): n rounded to 53 significant bits, ties to even
ToFloat(n) ==
    IF BitLen(n) <= MantissaBits THEN n
    ELSE LET d     == BitLen(n) - MantissaBits
             low   == Mod2(n, d)
             kept  == Sub(n, low)
             c     == Cmp(MulSmall(low, 2), Pow2(d))
         IN  IF c > 0 \/ (c = 0 /\ Bit(n, d) = 1)
             THEN Add(kept, Pow2(d))
             ELSE kept

\* "bytes_val <= 1024.0" in place of "<"
Less1024_Inclusive(m, e) == Len(m) <= e + 1 \/ m = ShiftUp(<<1>>, e + 1)

\* m / 1024^e < 1024.0
Less1024(m, e) == Len(m) <= e + 1

\* m / 1024^e / 1024.0 : the new m (the new e is e + 1)
DivideBy1024(m, e) == IF e = 0 THEN ToFloat(m) ELSE m

\* the hundredths cut off instead of rounded
Fmt2f_Truncating(m, e) == ShiftDown(MulSmall(m, 100), e)

\* "{v:.2f}" for v = m / 1024^e: the number of hundredths, the exact binary
\* value rounded to the nearest hundredth, ties to even
Fmt2f(m, e) ==
    LET p    == MulSmall(m, 100)
        h0   == ShiftDown(p, e)
        rest == LowLimbs(p, e)
        c    == Cmp(MulSmall(rest, 2), ShiftUp(<<1>>, e))
    IN  IF c > 0 \/ (c = 0 /\ Limb(h0, 1) % 2 = 1)
        THEN Add(h0, <<1>>)
        ELSE h0

TwoDigits(x) == ToString(x \div 10) \o ToString(x % 10)

\* f"{v:.2f} {unit}" for v = m / 1024^e
Render(m, e, unit) ==
    LET h == Fmt2f(m, e)
    IN  [unit       |-> unit,
         hundredths |-> h,
         text       |-> Str(DivSmall(h, 100)) \o "." \o TwoDigits(ModSmall(h, 100))
                        \o " " \o unit]

LoopUnits == <<"B", "KB", "MB", "GB", "TB">>

LastUnit == "PB"

(***************************************************************************)
(* format_bytes, one definition per copy.                                  *)
(***************************************************************************)

\* the auto-refresh TUI
RECURSIVE recon_format_bytes_loop(_, _, _)
recon_format_bytes_loop(m, e, i) ==
    IF i > Len(LoopUnits) THEN Render(m, e, LastUnit)
    ELSE IF Less1024(m, e) THEN Render(m, e, LoopUnits[i])
    ELSE recon_format_bytes_loop(DivideBy1024(m, e), e + 1, i + 1)

recon_format_bytes(bytes_val) == recon_format_bytes_loop(bytes_val, 0, 1)

\* the plain TUI
RECURSIVE tui_format_bytes_loop(_, _, _)
tui_format_bytes_loop(m, e, i) ==
    IF i > Len(LoopUnits) THEN Render(m, e, LastUnit)
    ELSE IF Less1024(m, e) THEN Render(m, e, LoopUnits[i])
    ELSE tui_format_bytes_loop(DivideBy1024(m, e), e + 1, i + 1)

tui_format_bytes(bytes_val) == tui_format_bytes_loop(bytes_val, 0, 1)

\* the monolithic script
RECURSIVE main_format_bytes_loop(_, _, _)
main_format_bytes_loop(m, e, i) ==
    IF i > Len(LoopUnits) THEN Render(m, e, LastUnit)
    ELSE IF Less1024(m, e) THEN Render(m, e, LoopUnits[i])
    ELSE main_format_bytes_loop(DivideBy1024(m, e), e + 1, i + 1)

main_format_bytes(bytes_val) == main_format_bytes_loop(bytes_val, 0, 1)

(***************************************************************************)
(* Specification SpecFmt: format_bytes applied to byte counts.             *)
(***************************************************************************)
Copies == {"recon", "tui", "main"}

\* the state of a front end right after DiagnosysTUI.__init__
AfterConstruction ==
    /\ pc = "menu"
    /\ running = TRUE
    /\ current_view = "1"
    /\ lock = "free"
    /\ choice = ""
    /\ sec = 0
    /\ sections = <<>>
    /\ slept = 0
    /\ ticks = 0
    /\ renders = 0
    /\ error_shown = FALSE
    /\ last = [ev |-> "init", at |-> "init"]
    /\ denials = 0
    /\ in_gv = 0
    /\ elapsed = 0
    /\ gv_call = "none"

NoOut == [unit |-> "", hundredths |-> <<>>, text |-> ""]

NoResult == [status |-> "none", list |-> <<>>]

\* scan_processes is not called in this specification
ProcIdle ==
    /\ sp_visible = <<>>
    /\ sp_result = NoResult

\* format_bytes is not called in this specification
FmtIdle ==
    /\ fb_n = <<>>
    /\ fb_out = [c \in Copies |-> NoOut]

\* no front end is stepped in this specification
RunIdle ==
    /\ variant = "recon"
    /\ AfterConstruction

\* scan_directory is not called in this specification
DirIdle ==
    /\ sd_root = [kind |-> "missing", listable |-> TRUE, entries |-> <<>>]
    /\ sd_result = [status |-> "none"]
    /\ sd_shown = [line |-> "none"]

\* get_disk_info is not called in this specification
DiskIdle ==
    /\ di_partitions = <<>>
    /\ di_result = [c \in {"diagnostics", "main"} |-> [status |-> "none"]]

\* scan_network_connections is not called in this specification
NetIdle ==
    /\ nc_query = [denied |-> FALSE, connections |-> <<>>, narrower |-> <<>>]
    /\ nc_result = [status |-> "none"]

\* FirmwareDiagnostics is not called in this specification
FwIdle ==
    /\ fw_probe = [system |-> "Linux", outcome |-> "missing", stdout |-> ""]
    /\ fw_result = [status |-> "none"]
    /\ sw_probes = <<>>
    /\ sw_result = [status |-> "none"]
    /\ sw_shown = [line |-> "none"]

\* no listening-port table is built in this specification
PortIdle ==
    /\ lp_listening = [is_none |-> FALSE, ports |-> <<>>]
    /\ lp_shown = [v \in {"recon", "tui"} |-> [status |-> "none"]]

\* limb values the generic inputs are built from
LimbVals == {0, 1, 1023}

\* 1152, 1536, 2^40, 2^53 + 1 and 9024087753343631 (not a double)
SpecialInputs ==
    { <<128, 1>>, <<512, 1>>, <<0, 0, 0, 0, 1>>, <<1, 0, 0, 0, 0, 8>>,
      <<655, 368, 655, 368, 15, 8>> }

FbInputs ==
    { s \in UNION { [1..k -> LimbVals] : k \in 0..MaxLimbs } : Norm(s) = s }
    \cup SpecialInputs

FmtInit ==
    /\ fb_n \in FbInputs
    /\ fb_out = [c \in Copies |-> NoOut]
    /\ RunIdle
    /\ ProcIdle
    /\ DirIdle
    /\ DiskIdle
    /\ NetIdle
    /\ FwIdle
    /\ PortIdle

FormatBytesRecon ==
    /\ fb_out["recon"] = NoOut
    /\ fb_out' = [fb_out EXCEPT !["recon"] = recon_format_bytes(fb_n)]
    /\ UNCHANGED <<fb_n, nonFmtVars>>

FormatBytesTui ==
    /\ fb_out["tui"] = NoOut
    /\ fb_out' = [fb_out EXCEPT !["tui"] = tui_format_bytes(fb_n)]
    /\ UNCHANGED <<fb_n, nonFmtVars>>

FormatBytesMain ==
    /\ fb_out["main"] = NoOut
    /\ fb_out' = [fb_out EXCEPT !["main"] = main_format_bytes(fb_n)]
    /\ UNCHANGED <<fb_n, nonFmtVars>>

FmtNext ==
    \/ FormatBytesRecon
    \/ FormatBytesTui
    \/ FormatBytesMain

SpecFmt == FmtInit /\ [][FmtNext]_vars

(***************************************************************************)
(* Claims about format_bytes.                                              *)
(***************************************************************************)
AllUnits == <<"B", "KB", "MB", "GB", "TB", "PB">>

UnitIndex(u) == CHOOSE k \in 0..5 : AllUnits[k + 1] = u

\* 1024^j
Pow1024(j) == ShiftUp(<<1>>, j)

\* n < 1024^j, on the byte count itself
BelowPow(n, j) == Cmp(n, Pow1024(j)) < 0

Formatted(c) == fb_out[c] # NoOut

\* C1: the unit is the one with the smallest index k in 0..5 such that
\* n / 1024^k < 1024, it is PB for every n >= 1024^6, and the three copies of
\* format_bytes choose the same unit.
C1_UnitIsSmallest ==
    /\ \A c \in Copies :
          Formatted(c) =>
             /\ fb_out[c].unit \in { AllUnits[i] : i \in 1..6 }
             /\ LET k == UnitIndex(fb_out[c].unit)
                IN  /\ \A j \in 0..(k - 1) : ~BelowPow(fb_n, j + 1)
                    /\ k < 5 => BelowPow(fb_n, k + 1)
             /\ ~BelowPow(fb_n, 6) => fb_out[c].unit = "PB"
    /\ \A c1, c2 \in Copies :
          Formatted(c1) /\ Formatted(c2) => fb_out[c1].unit = fb_out[c2].unit

\* a count of at least 1024^6 formatted by all three copies
C1_Witness ==
    /\ \A c \in Copies : Formatted(c) /\ fb_out[c].unit = "PB"
    /\ ~BelowPow(fb_n, 6)

\* |a - b|
AbsDiff(a, b) == IF Cmp(a, b) >= 0 THEN Sub(a, b) ELSE Sub(b, a)

\* h hundredths is the two-decimal rendering of v / 1024^k: no other count of
\* hundredths is nearer, and of two equally near ones h is the even one
NearestHundredth(h, v, k) ==
    LET c == Cmp(MulSmall(AbsDiff(MulSmall(v, 100), ShiftUp(h, k)), 2), Pow1024(k))
    IN  c < 0 \/ (c = 0 /\ Limb(h, 1) % 2 = 0)

Variants == {"recon", "tui", "main"}

\* self.refresh_interval
refresh_interval == 2

\* what the operator can type at "Select option"
Choices == {"1", "2", "3", "4", "5", "6", "7", "8", "9", "10", "11", "q", "Q", "x"}

\* choice.lower(), on the selections above
Lower(c) == IF c = "Q" THEN "q" ELSE c

\* choice == 'q', without lower()
IsQuit_CaseSensitive(c) == c = "q"

\* choice.lower() == 'q'
IsQuit(c) == Lower(c) = "q"

\* the auto-refresh TUI: choice in ['1', '2', '3', '4', '5', '6']
AutoRefreshChoices(v) ==
    IF v = "recon" THEN {"1", "2", "3", "4", "5", "6"} ELSE {}

\* the selections that show a single-render view
StaticChoices(v) ==
    CASE v = "recon" -> {"7", "8", "9"}
      [] v = "tui"   -> {"1", "2", "3", "4", "5", "6", "7", "8", "9", "10", "11"}
      [] v = "main"  -> {"1", "2", "3", "4", "5", "6", "7"}

\* generate_view of the auto-refresh TUI and its static views 7, 8, 9
recon_view(c) ==
    CASE c = "1" -> <<"get_cpu_info", "get_memory_info", "get_disk_info">>
      [] c = "2" -> <<"scan_processes">>
      [] c = "3" -> <<"scan_network_connections">>
      [] c = "4" -> <<"get_connection_summary", "get_network_io_stats",
                      "get_external_connections">>
      [] c = "5" -> <<"get_user_info", "scan_listening_ports">>
      [] c = "6" -> <<"scan_network_interfaces">>
      [] c = "7" -> <<"get_firmware_info">>
      [] c = "8" -> <<"get_software_inventory">>
      [] c = "9" -> <<"scan_directory">>
      [] OTHER   -> <<>>

\* the if/elif chain of run() of the plain TUI
tui_view(c) ==
    CASE c = "1"  -> <<"get_cpu_info", "get_memory_info", "get_disk_info">>
      [] c = "2"  -> <<"get_cpu_info">>
      [] c = "3"  -> <<"get_memory_info">>
      [] c = "4"  -> <<"get_disk_info">>
      [] c = "5"  -> <<"get_firmware_info">>
      [] c = "6"  -> <<"get_software_inventory">>
      [] c = "7"  -> <<"scan_processes">>
      [] c = "8"  -> <<"scan_network_connections">>
      [] c = "9"  -> <<"scan_directory">>
      [] c = "10" -> <<"get_user_info", "scan_listening_ports">>
      [] c = "11" -> <<"scan_network_interfaces">>
      [] OTHER    -> <<>>

\* the if/elif chain of run() of the monolithic script
main_view(c) ==
    CASE c = "1" -> <<"get_cpu_info", "get_memory_info", "get_disk_info">>
      [] c = "2" -> <<"get_cpu_info">>
      [] c = "3" -> <<"get_memory_info">>
      [] c = "4" -> <<"get_disk_info">>
      [] c = "5" -> <<"scan_processes">>
      [] c = "6" -> <<"scan_network_connections">>
      [] c = "7" -> <<"scan_directory">>
      [] OTHER   -> <<>>

ViewCollectors(v, c) ==
    CASE v = "recon" -> recon_view(c)
      [] v = "tui"   -> tui_view(c)
      [] v = "main"  -> main_view(c)

(***************************************************************************)
(* What a collector call does when the operating system denies access to   *)
(* what it reads: "degraded" (the call returns a placeholder or leaves the *)
(* entry out) or "raise" (the fault leaves the collector).                 *)
(***************************************************************************)

\* no try around psutil.cpu_percent, cpu_freq, cpu_count
get_cpu_info_denied == {"raise"}

\* no try around psutil.virtual_memory, swap_memory
get_memory_info_denied == {"raise"}

\* except PermissionError: continue around psutil.disk_usage
get_disk_info_denied == {"degraded"}

\* a process whose memory percentage is denied is enumerated with None for
\* it; sorted() then raises TypeError as soon as there is a second process
scan_processes_denied == {"degraded", "raise"}

\* no try around psutil.net_connections(kind='inet')
scan_network_connections_denied == {"raise"}

\* except PermissionError: continue around the entry's stat; no try around
\* path_obj.iterdir()
scan_directory_denied == {"degraded", "raise"}

\* Linux: except (..., PermissionError) sets the marker
get_firmware_info_denied == {"degraded"}

\* except (subprocess.TimeoutExpired, FileNotFoundError) only
get_software_inventory_denied == {"raise"}

\* ServerRecon: get_user_info, scan_listening_ports, scan_network_interfaces,
\* get_connection_summary, get_network_io_stats, get_external_connections
ServerRecon_denied == {"degraded"}

DeniedOutcomes(col) ==
    CASE col = "get_cpu_info"             -> get_cpu_info_denied
      [] col = "get_memory_info"          -> get_memory_info_denied
      [] col = "get_disk_info"            -> get_disk_info_denied
      [] col = "scan_processes"           -> scan_processes_denied
      [] col = "scan_network_connections" -> scan_network_connections_denied
      [] col = "scan_directory"           -> scan_directory_denied
      [] col = "get_firmware_info"        -> get_firmware_info_denied
      [] col = "get_software_inventory"   -> get_software_inventory_denied
      [] OTHER                            -> ServerRecon_denied

(***************************************************************************)
(* Specification SpecRun: DiagnosysTUI.run() of the three front ends.      *)
(*                                                                         *)
(* pc: "menu" (the menu is shown, Prompt.ask waits for a selection),       *)
(* "view" (a single-render view calls its collectors), "enter_prompt"      *)
(* ("Press Enter to continue" after a view), "error_prompt" (the same      *)
(* prompt inside "except Exception"), "invalid_sleep" (time.sleep(1) after *)
(* "Invalid option"), "ar_start" (run_auto_refresh_view has set            *)
(* current_view), "gv" (inside "with self.lock" of generate_view),         *)
(* "ar_sleep" (time.sleep(self.refresh_interval)), "done" (run() has       *)
(* returned), "escaped" (an exception has left run()).                     *)
(***************************************************************************)
RunInit ==
    /\ variant \in Variants
    /\ AfterConstruction
    /\ FmtIdle
    /\ ProcIdle
    /\ DirIdle
    /\ DiskIdle
    /\ NetIdle
    /\ FwIdle
    /\ PortIdle

Event(e) == [ev |-> e, at |-> pc]

Collectors == ViewCollectors(variant, choice)

Rendering == pc \in {"view", "gv"}

ArPcs == {"ar_start", "gv", "ar_sleep"}

\* a refresh loop that gives up after two ticks
WhileCondition_Bounded(r, t) == r /\ t < 2

\* "while self.running:" of run() and of run_auto_refresh_view()
WhileCondition(r, t) == r

\* if choice.lower() == 'q': self.running = False; print; break
Quit ==
    /\ pc = "menu"
    /\ WhileCondition(running, 0)
    /\ \E c \in Choices :
          /\ IsQuit(c)
          /\ choice' = c
    /\ running' = FALSE
    /\ pc' = "done"
    /\ last' = Event("quit")
    /\ UNCHANGED <<nonRunVars, variant, current_view, lock, sec, sections, slept, ticks, renders, error_shown, denials, in_gv, elapsed, gv_call>>

\* choice in ['1'..'6']: console.clear(); self.run_auto_refresh_view(choice)
\* up to self.current_view = view
SelectAutoRefresh ==
    /\ pc = "menu"
    /\ WhileCondition(running, 0)
    /\ \E c \in AutoRefreshChoices(variant) :
          /\ ~IsQuit(c)
          /\ choice' = c
          /\ current_view' = c
    /\ pc' = "ar_start"
    /\ gv_call' = "first"
    /\ sec' = 0
    /\ sections' = <<>>
    /\ denials' = 0
    /\ ticks' = 0
    /\ renders' = 0
    /\ error_shown' = FALSE
    /\ last' = Event("select")
    /\ UNCHANGED <<nonRunVars, variant, running, lock, slept, in_gv, elapsed>>

\* a single-render view is selected: clear, header, then the collectors
SelectStatic ==
    /\ pc = "menu"
    /\ WhileCondition(running, 0)
    /\ \E c \in StaticChoices(variant) \ AutoRefreshChoices(variant) :
          /\ choice' = c
    /\ pc' = "view"
    /\ sec' = 0
    /\ sections' = <<>>
    /\ denials' = 0
    /\ elapsed' = 0
    /\ ticks' = 0
    /\ renders' = 0
    /\ error_shown' = FALSE
    /\ last' = Event("select")
    /\ UNCHANGED <<nonRunVars, variant, running, current_view, lock, slept, in_gv, gv_call>>

\* the else branch: "Invalid option", then time.sleep(1) (auto-refresh TUI)
\* or "Press Enter to continue" (the other two)
SelectInvalid ==
    /\ pc = "menu"
    /\ WhileCondition(running, 0)
    /\ \E c \in Choices :
          /\ ~IsQuit(c)
          /\ c \notin AutoRefreshChoices(variant) \cup StaticChoices(variant)
          /\ choice' = c
    /\ pc' = IF variant = "recon" THEN "invalid_sleep" ELSE "enter_prompt"
    /\ sec' = 0
    /\ sections' = <<>>
    /\ denials' = 0
    /\ ticks' = 0
    /\ renders' = 0
    /\ error_shown' = FALSE
    /\ last' = Event("select")
    /\ UNCHANGED <<nonRunVars, variant, running, current_view, lock, slept, in_gv, elapsed, gv_call>>

\* time.sleep(1) returns and the while loop shows the menu again
InvalidSleepDone ==
    /\ pc = "invalid_sleep"
    /\ pc' = "menu"
    /\ last' = Event("wake")
    /\ UNCHANGED <<nonRunVars, variant, running, current_view, lock, choice, sec, sections, slept, ticks, renders, error_shown, denials, in_gv, elapsed, gv_call>>

\* a timer that calls generate_view on every period, without the lock
GvEnter_NoLock ==
    /\ pc \in {"ar_start", "ar_sleep", "gv"}
    /\ in_gv < 2
    /\ lock' = "held"
    /\ in_gv' = in_gv + 1
    /\ gv_call' = IF pc = "ar_start" THEN "first" ELSE "tick"
    /\ pc' = "gv"
    /\ sec' = 0
    /\ sections' = <<>>
    /\ denials' = 0
    /\ elapsed' = 0
    /\ last' = Event("gv_enter")
    /\ UNCHANGED <<nonRunVars, variant, running, current_view, choice, slept, ticks, renders, error_shown>>

\* generate_view: "with self.lock:" is entered, by the Live(...) argument or
\* by live.update(...) once time.sleep(self.refresh_interval) has returned
GvEnter ==
    /\ \/ pc = "ar_start"
       \/ pc = "ar_sleep" /\ slept = refresh_interval
    /\ lock = "free"
    /\ lock' = "held"
    /\ in_gv' = in_gv + 1
    /\ gv_call' = IF pc = "ar_start" THEN "first" ELSE "tick"
    /\ pc' = "gv"
    /\ sec' = 0
    /\ sections' = <<>>
    /\ denials' = 0
    /\ elapsed' = 0
    /\ last' = Event("gv_enter")
    /\ UNCHANGED <<nonRunVars, variant, running, current_view, choice, slept, ticks, renders, error_shown>>

\* a collector call of the view returns its records
CollectOk ==
    /\ Rendering
    /\ sec < Len(Collectors)
    /\ sec' = sec + 1
    /\ sections' = Append(sections, "ok")
    /\ last' = Event("collect")
    /\ UNCHANGED <<nonRunVars, variant, pc, running, current_view, lock, choice, slept, ticks, renders, error_shown, denials, in_gv, elapsed, gv_call>>

\* run() without "except Exception"
Raise_Uncaught(e) ==
    /\ pc' = "escaped"
    /\ error_shown' = FALSE
    /\ lock' = "free"
    /\ in_gv' = 0
    /\ last' = Event(e)

\* an exception other than KeyboardInterrupt leaves the try body of run():
\* "with self.lock" releases the lock on the way, "except Exception" prints
\* the error and asks for Enter
Raise(e) ==
    /\ pc' = "error_prompt"
    /\ error_shown' = TRUE
    /\ lock' = "free"
    /\ in_gv' = 0
    /\ last' = Event(e)

\* the operating system denies what a collector call reads
CollectDenied ==
    /\ Rendering
    /\ sec < Len(Collectors)
    /\ denials' = denials + 1
    /\ \E o \in DeniedOutcomes(Collectors[sec + 1]) :
          IF o = "degraded"
          THEN /\ sec' = sec + 1
               /\ sections' = Append(sections, "degraded")
               /\ last' = Event("denied")
               /\ UNCHANGED <<pc, error_shown, lock, in_gv>>
          ELSE /\ Raise("denied_raise")
               /\ UNCHANGED <<sec, sections>>
    /\ UNCHANGED <<nonRunVars, variant, running, current_view, choice, slept, ticks, renders, elapsed, gv_call>>

\* a collector call or the table built from it raises another fault
CollectFault ==
    /\ Rendering
    /\ sec < Len(Collectors)
    /\ Raise("fault")
    /\ UNCHANGED <<nonRunVars, variant, running, current_view, choice, sec, sections, slept, ticks, renders, denials, elapsed, gv_call>>

\* time passes while a render is in progress
RenderTakesTime ==
    /\ Rendering
    /\ elapsed < MaxElapsed
    /\ elapsed' = elapsed + 1
    /\ last' = Event("delay")
    /\ UNCHANGED <<nonRunVars, variant, pc, running, current_view, lock, choice, sec, sections, slept, ticks, renders, error_shown, denials, in_gv, gv_call>>

\* generate_view returns the layout: the lock is released, Live shows it
GvExit ==
    /\ pc = "gv"
    /\ sec = Len(Collectors)
    /\ lock' = "free"
    /\ in_gv' = in_gv - 1
    /\ renders' = Min(renders + 1, MaxTicks)
    /\ ticks' = IF gv_call = "tick" THEN Min(ticks + 1, MaxTicks) ELSE ticks
    /\ pc' = "ar_sleep"
    /\ slept' = 0
    /\ last' = Event("gv_exit")
    /\ UNCHANGED <<nonRunVars, variant, running, current_view, choice, sec, sections, error_shown, denials, elapsed, gv_call>>

\* while self.running: time.sleep(self.refresh_interval), one time unit
\* per step; the loop is left when the condition is false
Sleep ==
    /\ pc = "ar_sleep"
    /\ slept < refresh_interval
    /\ IF slept > 0 \/ WhileCondition(running, ticks)
       THEN /\ slept' = slept + 1
            /\ last' = Event("sleep")
            /\ UNCHANGED pc
       ELSE /\ pc' = "menu"
            /\ last' = Event("loop_end")
            /\ UNCHANGED slept
    /\ UNCHANGED <<nonRunVars, variant, running, current_view, lock, choice, sec, sections, ticks, renders, error_shown, denials, in_gv, elapsed, gv_call>>

\* the collectors of a single-render view have returned and it is printed;
\* "Press Enter to continue" follows
ViewDone ==
    /\ pc = "view"
    /\ sec = Len(Collectors)
    /\ renders' = Min(renders + 1, MaxTicks)
    /\ pc' = "enter_prompt"
    /\ last' = Event("view_done")
    /\ UNCHANGED <<nonRunVars, variant, running, current_view, lock, choice, sec, sections, slept, ticks, error_shown, denials, in_gv, elapsed, gv_call>>

\* a break after the prompt
Enter_EndsLoop ==
    /\ pc \in {"enter_prompt", "error_prompt"}
    /\ pc' = "done"
    /\ error_shown' = FALSE
    /\ last' = Event("enter")
    /\ UNCHANGED <<nonRunVars, variant, running, current_view, lock, choice, sec, sections, slept, ticks, renders, denials, in_gv, elapsed, gv_call>>

\* the operator presses Enter at "Press Enter to continue"
Enter ==
    /\ pc \in {"enter_prompt", "error_prompt"}
    /\ pc' = "menu"
    /\ error_shown' = FALSE
    /\ last' = Event("enter")
    /\ UNCHANGED <<nonRunVars, variant, running, current_view, lock, choice, sec, sections, slept, ticks, renders, denials, in_gv, elapsed, gv_call>>

\* the handler of the plain TUI in the auto-refresh TUI
recon_on_interrupt_Exits(at) == IF at = "error_prompt" THEN "escaped" ELSE "done"

\* except KeyboardInterrupt of the auto-refresh TUI: run_auto_refresh_view
\* passes, run() continues with the menu; an interrupt at the prompt of
\* "except Exception" is inside no try
recon_on_interrupt(at) == IF at = "error_prompt" THEN "escaped" ELSE "menu"

\* except KeyboardInterrupt of the plain TUI: self.running = False; break
tui_on_interrupt(at) == IF at = "error_prompt" THEN "escaped" ELSE "done"

\* except KeyboardInterrupt of the monolithic script
main_on_interrupt(at) == IF at = "error_prompt" THEN "escaped" ELSE "done"

OnInterrupt(v, at) ==
    CASE v = "recon" -> recon_on_interrupt(at)
      [] v = "tui"   -> tui_on_interrupt(at)
      [] v = "main"  -> main_on_interrupt(at)

\* an interrupt that leaves the render lock as it finds it
Interrupt_KeepsLock ==
    /\ pc \notin {"done", "escaped"}
    /\ pc' = OnInterrupt(variant, pc)
    /\ running' = IF pc' = "done" THEN FALSE ELSE running
    /\ error_shown' = IF pc' = "menu" THEN FALSE ELSE error_shown
    /\ last' = Event("interrupt")
    /\ UNCHANGED <<nonRunVars, variant, current_view, lock, in_gv, choice, sec, sections, slept, ticks, renders, denials, elapsed, gv_call>>

\* KeyboardInterrupt is raised wherever run() is; "with self.lock" releases
\* the lock when the interrupt leaves generate_view
Interrupt ==
    /\ pc \notin {"done", "escaped"}
    /\ pc' = OnInterrupt(variant, pc)
    /\ running' = IF pc' = "done" THEN FALSE ELSE running
    /\ lock' = "free"
    /\ in_gv' = 0
    /\ error_shown' = IF pc' = "menu" THEN FALSE ELSE error_shown
    /\ last' = Event("interrupt")
    /\ UNCHANGED <<nonRunVars, variant, current_view, choice, sec, sections, slept, ticks, renders, denials, elapsed, gv_call>>

RunNext ==
    \/ Quit
    \/ SelectAutoRefresh
    \/ SelectStatic
    \/ SelectInvalid
    \/ InvalidSleepDone
    \/ GvEnter
    \/ CollectOk
    \/ CollectDenied
    \/ CollectFault
    \/ RenderTakesTime
    \/ GvExit
    \/ Sleep
    \/ ViewDone
    \/ Enter
    \/ Interrupt

SpecRun == RunInit /\ [][RunNext]_vars

(***************************************************************************)
(* Claims about the run loop.                                              *)
(***************************************************************************)

\* C3: a view that is dismissed (Enter for a single-render view or after
\* "Invalid option", an interrupt for an auto-refresh view, the end of the
\* pause after "Invalid option" in the auto-refresh TUI) is followed by the
\* main menu with running still true, and a single-render view has been
\* rendered exactly once when its "Press Enter" prompt is shown.
C3_DismissedViewReturnsToMenu ==
    /\ [][ (\/ pc = "enter_prompt" /\ last'.ev = "enter"
            \/ pc \in ArPcs /\ last'.ev = "interrupt"
            \/ pc = "invalid_sleep" /\ last'.ev = "wake")
           => (pc' = "menu" /\ running') ]_vars
    /\ [](pc = "view" => renders = 0)
    /\ [](pc = "enter_prompt" /\ choice \in StaticChoices(variant) => renders = 1)
    /\ [](pc = "enter_prompt" /\ choice \notin StaticChoices(variant) => renders = 0)

\* a single-render view of the plain TUI dismissed with Enter
C3_Witness ==
    /\ variant = "tui"
    /\ pc = "menu"
    /\ last = [ev |-> "enter", at |-> "enter_prompt"]
    /\ choice = "5"
    /\ renders = 1
    /\ running

\* C4: selecting q or Q at the main menu sets running to false and ends
\* run(); nothing happens after run() has returned and running never
\* becomes true again.
C4_QuitIsTerminal ==
    /\ [][ (pc = "menu" /\ last'.ev # "interrupt" /\ choice' \in {"q", "Q"})
           => (pc' = "done" /\ ~running' /\ last'.ev = "quit") ]_vars
    /\ [][ pc # "done" ]_vars
    /\ [][ ~running => ~running' ]_vars
    /\ [](pc = "done" => ~running)

\* Q was selected and run() has returned
C4_Witness ==
    /\ pc = "done"
    /\ choice = "Q"
    /\ last.ev = "quit"
    /\ ~running

\* C5: an auto-refresh view is rendered once when selected and again after
\* every wait of refresh_interval; the refresh loop is left only by an
\* interrupt (or by a fault raised by a render), never by itself after some
\* number of ticks, and an interrupt always leaves it.
C5_RefreshUntilInterrupted ==
    /\ [][ (pc \in ArPcs /\ pc' \notin ArPcs)
           => last'.ev \in {"interrupt", "fault", "denied_raise"} ]_vars
    /\ [][ (pc \in ArPcs /\ last'.ev = "interrupt") => pc' \notin ArPcs ]_vars
    /\ [][ (pc = "ar_start" /\ last'.ev # "interrupt")
           => (pc' = "gv" /\ gv_call' = "first") ]_vars
    /\ [][ (pc = "ar_sleep" /\ pc' = "gv")
           => (slept = refresh_interval /\ gv_call' = "tick") ]_vars
    /\ [](pc = "ar_sleep" => /\ renders >= 1
                             /\ renders < MaxTicks => renders = ticks + 1
                             /\ slept <= refresh_interval
                             /\ ENABLED (Sleep \/ GvEnter))
    /\ refresh_interval = 2

\* the view has been re-rendered twice and a third tick is being rendered
C5_Witness ==
    /\ pc = "gv"
    /\ gv_call = "tick"
    /\ ticks >= 2
    /\ running

C7_InterruptReturnsToMenu ==
    [][ (pc \in ArPcs /\ last'.ev = "interrupt")
        => (pc' = "menu" /\ running' /\ lock' = "free" /\ in_gv' = 0) ]_vars

\* an interrupt inside generate_view of a later tick
C7_Witness ==
    /\ variant = "recon"
    /\ pc = "menu"
    /\ last = [ev |-> "interrupt", at |-> "gv"]
    /\ gv_call = "tick"
    /\ running

\* C8: a fault other than an interrupt raised while a view is rendered is
\* caught by run(): the error message is shown, running stays true, and
\* Enter at its prompt shows the main menu again.
C8_FaultIsCaught ==
    /\ [][ last'.ev \in {"fault", "denied_raise"}
           => /\ pc \in {"view", "gv"}
              /\ pc' = "error_prompt"
              /\ error_shown'
              /\ running' ]_vars
    /\ [][ (pc = "error_prompt" /\ last'.ev = "enter")
           => (pc' = "menu" /\ running') ]_vars
    /\ [](pc = "error_prompt" => error_shown /\ running)

\* a fault raised inside generate_view, caught and shown
C8_Witness ==
    /\ pc = "error_prompt"
    /\ last = [ev |-> "fault", at |-> "gv"]
    /\ error_shown
    /\ running

\* C9: when exactly one collector call of a render is denied access, the
\* call yields a placeholder or empty result and the render goes on: the
\* view is not ended and no error is shown.
C9_DenialDegrades ==
    (last.ev \in {"denied", "denied_raise"} /\ denials = 1)
       => /\ pc \in {"view", "gv"}
          /\ ~error_shown
          /\ sec >= 1
          /\ sections[sec] = "degraded"

(***************************************************************************)
(* SystemRecon.scan_processes.                                             *)
(*                                                                         *)
(* psutil.process_iter(attrs) yields one Process per visible process with  *)
(* proc.info filled in.  A process that vanishes while its details are     *)
(* read is skipped by process_iter; a detail whose read is denied is None  *)
(* in proc.info.  A visible process is [pid, mem, gone]; None is NoneVal.  *)
(***************************************************************************)
NoneVal == -1

\* sorted(...)[:20]
DisplayCount == 20

Reverse(l) == [i \in 1..Len(l) |-> l[Len(l) + 1 - i]]

\* the loop of scan_processes: processes.append(proc.info) for every process
\* that process_iter yields
Enumerated(visible) ==
    LET rec(p) == [pid |-> p.pid, mem |-> p.mem]
        kept   == SelectSeq(visible, LAMBDA p : ~p.gone)
    IN  [i \in 1..Len(kept) |-> rec(kept[i])]

\* key=lambda x: x.get('memory_percent', 0): the key is present, so the
\* default is never used and a denied percentage gives the key None
SortKey(x) == x.mem

\* the position binarysort gives to x in the sorted prefix l: after every
\* element that is not greater than x
RECURSIVE InsertAfterEqual(_, _)
InsertAfterEqual(l, x) ==
    IF l = <<>> THEN <<x>>
    ELSE IF SortKey(x) < SortKey(l[1]) THEN <<x>> \o l
    ELSE <<l[1]>> \o InsertAfterEqual(Tail(l), x)

\* list.sort, ascending and stable
RECURSIVE SortAscending(_)
SortAscending(l) ==
    IF l = <<>> THEN <<>>
    ELSE InsertAfterEqual(SortAscending(SubSeq(l, 1, Len(l) - 1)), l[Len(l)])

\* sorted ascending, then reversed: equal keys end up in reverse order
SortedReverse_Unstable(l) == Reverse(SortAscending(l))

\* sorted(l, key=..., reverse=True): the list is reversed, sorted ascending
\* and reversed again, which keeps equal keys in their original order
SortedReverse(l) == Reverse(SortAscending(Reverse(l)))

\* comparing None with a number, or with None, raises TypeError; every
\* element of a list of two or more is compared at least once
SortRaises(l) == Len(l) >= 2 /\ \E i \in 1..Len(l) : SortKey(l[i]) = NoneVal

scan_processes(visible) ==
    LET processes == Enumerated(visible)
    IN  IF SortRaises(processes)
        THEN [status |-> "raised", list |-> <<>>]
        ELSE [status |-> "returned",
              list   |-> SubSeq(SortedReverse(processes), 1,
                                Min(DisplayCount, Len(processes)))]

(***************************************************************************)
(* Specification SpecProc: scan_processes applied to process lists.        *)
(***************************************************************************)
ShortLists ==
    UNION { [1..k -> [mem : (0..MaxMem) \cup {NoneVal}, gone : BOOLEAN]]
            : k \in 0..MaxShort }

WithPids(l) == [i \in 1..Len(l) |-> [pid |-> i, mem |-> l[i].mem, gone |-> l[i].gone]]

PatternList(len, a, b, m) ==
    [i \in 1..len |-> [pid |-> i, mem |-> ((a * i + b) % m) % (MaxMem + 1),
                       gone |-> FALSE]]

VisibleLists ==
    { WithPids(l) : l \in ShortLists }
    \cup { PatternList(len, a, b, m) :
              len \in 0..(DisplayCount + MaxExtra), a \in 0..2, b \in 0..1,
              m \in 1..(MaxMem + 1) }

ProcInit ==
    /\ sp_visible \in VisibleLists
    /\ sp_result = NoResult
    /\ FmtIdle
    /\ RunIdle
    /\ DirIdle
    /\ DiskIdle
    /\ NetIdle
    /\ FwIdle
    /\ PortIdle

ScanProcesses ==
    /\ sp_result = NoResult
    /\ sp_result' = scan_processes(sp_visible)
    /\ UNCHANGED <<sp_visible, nonProcVars>>

ProcNext == ScanProcesses

SpecProc == ProcInit /\ [][ProcNext]_vars

\* the place of the process with this pid in the enumeration
PlaceOf(l, pid) == CHOOSE i \in 1..Len(l) : l[i].pid = pid

\* x comes before y in the order of the claim: greater memory percentage
\* first, equal percentages in enumeration order
Before(l, x, y) ==
    \/ x.mem > y.mem
    \/ x.mem = y.mem /\ PlaceOf(l, x.pid) < PlaceOf(l, y.pid)

\* C10: for an enumerated list of processes that all have a memory
\* percentage, scan_processes returns them in non-increasing order of
\* memory percentage, equal percentages in enumeration order, cut to the
\* first 20; every returned record is an enumerated one, none twice, and
\* every record left out comes after every returned one.
C10_SortedStableTop20 ==
    LET l == Enumerated(sp_visible)
        r == sp_result.list
    IN  (sp_result # NoResult /\ \A i \in 1..Len(l) : l[i].mem # NoneVal)
           => /\ sp_result.status = "returned"
              /\ Len(r) = Min(Len(l), DisplayCount)
              /\ \A i \in 1..Len(r) : \E j \in 1..Len(l) : l[j] = r[i]
              /\ \A i, j \in 1..Len(r) : i < j => r[i].pid # r[j].pid
              /\ \A i, j \in 1..Len(r) : i < j => Before(l, r[i], r[j])
              /\ \A j \in 1..Len(l) :
                    (\A i \in 1..Len(r) : r[i] # l[j])
                       => \A i \in 1..Len(r) : Before(l, r[i], l[j])

\* more than 20 processes, with equal and with different percentages among
\* the 20 returned
C10_Witness ==
    /\ sp_result.status = "returned"
    /\ Len(Enumerated(sp_visible)) > DisplayCount
    /\ Len(sp_result.list) = DisplayCount
    /\ \E i \in 1..(DisplayCount - 1) :
          sp_result.list[i].mem = sp_result.list[i + 1].mem
    /\ \E i \in 1..(DisplayCount - 1) :
          sp_result.list[i].mem > sp_result.list[i + 1].mem

\* the visible processes that neither vanish nor have their memory
\* percentage denied, as records of the result
Readable(visible) ==
    LET kept == SelectSeq(visible, LAMBDA p : ~p.gone /\ p.mem # NoneVal)
    IN  [i \in 1..Len(kept) |-> [pid |-> kept[i].pid, mem |-> kept[i].mem]]

\* C11: scan_processes completes without raising for every list of visible
\* processes; a process that vanished or whose memory percentage was denied
\* is absent from the result, and the others are returned in non-increasing
\* order of memory percentage.
C11_CompletesDroppingDenied ==
    LET l == Readable(sp_visible)
        r == sp_result.list
    IN  sp_result # NoResult
           => /\ sp_result.status = "returned"
              /\ Len(r) = Min(Len(l), DisplayCount)
              /\ \A i \in 1..Len(r) : \E j \in 1..Len(l) : l[j] = r[i]
              /\ \A i, j \in 1..Len(r) : i < j => r[i].mem >= r[j].mem

(***************************************************************************)
(* SystemRecon.scan_directory and the directory-scan view.                 *)
(*                                                                         *)
(* What is at the path is [kind, listable, entries]: kind is "missing",    *)
(* "file" (a regular file) or "dir"; listable says whether iterdir() may   *)
(* read the directory.  An entry of the directory is                       *)
(* [name, type, size, nested, fault_at, fault]: type is "file", "dir" or   *)
(* "other" (a socket, a dangling link), nested the sizes of the regular    *)
(* files below a subdirectory.  The code reads the status of an entry up   *)
(* to three times (is_file; stat().st_size or is_dir; stat().st_mtime);    *)
(* fault_at is the first of these reads that fails (0: none) and fault is  *)
(* "perm" (PermissionError) or "notfound" (FileNotFoundError: the entry    *)
(* was deleted, so every later read fails too).                            *)
(***************************************************************************)
\* directories of up to MaxEntries entries without a fault, and of up to
\* MaxFaulty entries with any faults, alone or before a sound file
MaxEntries == 3

MaxFaulty == 1

\* file sizes are 0..MaxSize
MaxSize == 1

\* a subdirectory holds up to MaxNested files
MaxNested == 1

RECURSIVE SumSeq(_)
SumSeq(q) == IF q = <<>> THEN 0 ELSE q[1] + SumSeq(Tail(q))

\* Path(path).exists()
exists(root) == root.kind # "missing"

\* the outcome of the k-th status read of an entry
StatOutcome(e, k) ==
    IF e.fault_at # 0 /\ e.fault_at <= k THEN e.fault ELSE "ok"

\* Path.is_file(): a not-found fault is swallowed and gives False, a
\* permission fault is raised
is_file(e, k) ==
    CASE StatOutcome(e, k) = "perm"     -> "PermissionError"
      [] StatOutcome(e, k) = "notfound" -> "False"
      [] OTHER -> IF e.type = "file" THEN "True" ELSE "False"

\* Path.is_dir(), likewise
is_dir(e, k) ==
    CASE StatOutcome(e, k) = "perm"     -> "PermissionError"
      [] StatOutcome(e, k) = "notfound" -> "False"
      [] OTHER -> IF e.type = "dir" THEN "True" ELSE "False"

\* items.append({...}); 'modified' is left out of the record
Appended(acc, e, size) ==
    [acc EXCEPT !.items = Append(@, [name |-> e.name, type |-> e.type,
                                     size |-> size])]

\* the handler catches PermissionError only, a not-found fault propagates
except_PermissionError(acc, fault) ==
    IF fault = "perm" THEN acc
    ELSE [acc EXCEPT !.raised = "FileNotFoundError"]

\* the body of the for loop for one entry; acc is [items, total_size, raised]
HandleEntry(acc, e) ==
    IF is_file(e, 1) = "PermissionError" THEN except_PermissionError(acc, "perm")
    ELSE IF is_file(e, 1) = "True"
    THEN \* size = item.stat().st_size
         IF StatOutcome(e, 2) # "ok"
         THEN except_PermissionError(acc, StatOutcome(e, 2))
         ELSE \* total_size += size, then item.stat().st_mtime
              LET added == [acc EXCEPT !.total_size = @ + e.size]
              IN  IF StatOutcome(e, 3) # "ok"
                  THEN except_PermissionError(added, StatOutcome(e, 3))
                  ELSE Appended(added, e, e.size)
    ELSE IF is_dir(e, 2) = "PermissionError"
    THEN except_PermissionError(acc, "perm")
    ELSE IF is_dir(e, 2) = "True"
    THEN \* item.stat().st_mtime
         IF StatOutcome(e, 3) # "ok"
         THEN except_PermissionError(acc, StatOutcome(e, 3))
         ELSE Appended(acc, e, 0)
    ELSE acc

\* for item in path_obj.iterdir(): immediate children only
RECURSIVE ScanLoop(_, _, _)
ScanLoop(entries, i, acc) ==
    IF acc.raised # "" \/ i > Len(entries) THEN acc
    ELSE ScanLoop(entries, i + 1, HandleEntry(acc, entries[i]))

\* return None
NoneResult ==
    [status |-> "returned", is_none |-> TRUE, keys |-> {}, items |-> <<>>,
     total_size |-> 0, count |-> 0]

\* return {'items': items, 'total_size': total_size, 'count': len(items)}
DictResult(items, total_size) ==
    [status |-> "returned", is_none |-> FALSE,
     keys |-> {"items", "total_size", "count"}, items |-> items,
     total_size |-> total_size, count |-> Len(items)]

RaisedResult(error) == [status |-> "raised", error |-> error]

scan_directory(root) ==
    IF ~exists(root) THEN NoneResult
    ELSE IF root.kind = "file" THEN RaisedResult("NotADirectoryError")
    ELSE IF ~root.listable THEN RaisedResult("PermissionError")
    ELSE LET acc == ScanLoop(root.entries, 1,
                             [items |-> <<>>, total_size |-> 0, raised |-> ""])
         IN  IF acc.raised # "" THEN RaisedResult(acc.raised)
             ELSE DictResult(acc.items, acc.total_size)

\* a byte count below 1024^2 as limbs
NatLimbs(n) == Norm(<<n % Base, n \div Base>>)

\* "if result:": None is false, a dict is false only when it has no keys
Truthy_EmptyIsFalse(result) == ~result.is_none /\ result.count # 0

Truthy(result) == ~result.is_none /\ result.keys # {}

\* the directory-scan view: what it prints for a result; a fault of
\* scan_directory leaves the view and run() prints "Error: ..."
DirectoryScanView(result) ==
    IF result.status = "raised" THEN [line |-> "error"]
    ELSE IF Truthy(result)
    THEN [line  |-> "scanned", count |-> result.count,
          total |-> recon_format_bytes(NatLimbs(result.total_size)).text]
    ELSE [line |-> "invalid"]

(***************************************************************************)
(* Specification SpecDir: the directory-scan view applied to a path.       *)
(***************************************************************************)
NestedLists == UNION { [1..k -> 1..MaxSize] : k \in 0..MaxNested }

\* entries without a fault
CleanShapes ==
    [type : {"file"}, size : 0..MaxSize, nested : {<<>>}, fault_at : {0},
     fault : {"none"}]
    \cup [type : {"dir"}, size : {0}, nested : NestedLists, fault_at : {0},
          fault : {"none"}]
    \cup [type : {"other"}, size : {0}, nested : {<<>>}, fault_at : {0},
          fault : {"none"}]

\* entries one of whose status reads fails
FaultyShapes ==
    [type : {"file"}, size : 0..MaxSize, nested : {<<>>}, fault_at : 1..3,
     fault : {"perm", "notfound"}]
    \cup [type : {"dir"}, size : {0}, nested : NestedLists, fault_at : 1..3,
          fault : {"perm", "notfound"}]

Named(l) ==
    [i \in 1..Len(l) |->
        [name |-> i, type |-> l[i].type, size |-> l[i].size,
         nested |-> l[i].nested, fault_at |-> l[i].fault_at,
         fault |-> l[i].fault]]

\* a regular file none of whose status reads fails
SoundFile ==
    [type |-> "file", size |-> MaxSize, nested |-> <<>>, fault_at |-> 0,
     fault |-> "none"]

AnyLists ==
    UNION { [1..k -> CleanShapes \cup FaultyShapes] : k \in 0..MaxFaulty }

EntryLists ==
    { Named(l) : l \in UNION { [1..k -> CleanShapes] : k \in 0..MaxEntries } }
    \cup { Named(l) : l \in AnyLists }
    \cup { Named(Append(l, SoundFile)) : l \in AnyLists }

Roots ==
    { [kind |-> "missing", listable |-> TRUE, entries |-> <<>>],
      [kind |-> "file", listable |-> TRUE, entries |-> <<>>] }
    \cup [kind : {"dir"}, listable : {TRUE}, entries : EntryLists]
    \cup [kind : {"dir"}, listable : {FALSE}, entries : {<<>>}]

NoScan == [status |-> "none"]

DirInit ==
    /\ sd_root \in Roots
    /\ sd_result = NoScan
    /\ sd_shown = [line |-> "none"]
    /\ FmtIdle
    /\ RunIdle
    /\ ProcIdle
    /\ DiskIdle
    /\ NetIdle
    /\ FwIdle
    /\ PortIdle

\* the operator enters the path; the view calls scan_directory and prints
ScanDirectory ==
    /\ sd_result = NoScan
    /\ sd_result' = scan_directory(sd_root)
    /\ sd_shown' = DirectoryScanView(scan_directory(sd_root))
    /\ UNCHANGED <<sd_root, nonDirVars>>

DirNext == ScanDirectory

SpecDir == DirInit /\ [][DirNext]_vars

\* the sizes of the regular files at and below the entries, at every depth
RECURSIVE TreeFileSizes(_)
TreeFileSizes(entries) ==
    IF entries = <<>> THEN <<>>
    ELSE (CASE entries[1].type = "file" -> <<entries[1].size>>
            [] entries[1].type = "dir"  -> entries[1].nested
            [] OTHER -> <<>>)
         \o TreeFileSizes(Tail(entries))

ScannedDir == sd_result # NoScan /\ sd_root.kind = "dir" /\ sd_root.listable

FaultFree(entries) == \A i \in 1..Len(entries) : entries[i].fault_at = 0

\* C12: for a directory tree, scan_directory visits the descendants of the
\* root at every depth: total_size is the sum of the sizes of all regular
\* files at any depth and count is the number of those files (directories
\* are not counted).
C12_VisitsAllDescendants ==
    (ScannedDir /\ FaultFree(sd_root.entries))
       => /\ sd_result.status = "returned"
          /\ ~sd_result.is_none
          /\ sd_result.total_size = SumSeq(TreeFileSizes(sd_root.entries))
          /\ sd_result.count = Len(TreeFileSizes(sd_root.entries))

MissingRoot == [kind |-> "missing", listable |-> TRUE, entries |-> <<>>]

EmptyDir == [kind |-> "dir", listable |-> TRUE, entries |-> <<>>]

\* C13: on an existing empty directory scan_directory returns a result with
\* count 0 and total_size 0 and the view prints the 'Scanned 0 items' line;
\* on a path that does not exist it returns the not-found result (None) and
\* the view prints the invalid-path message; the two returned values differ
\* and the two printed lines differ.
C13_EmptyIsNotMissing ==
    /\ (sd_result # NoScan /\ sd_root = EmptyDir)
          => /\ sd_result.status = "returned"
             /\ ~sd_result.is_none
             /\ sd_result.count = 0
             /\ sd_result.total_size = 0
             /\ sd_result.items = <<>>
             /\ sd_shown = [line |-> "scanned", count |-> 0, total |-> "0.00 B"]
             /\ sd_result # scan_directory(MissingRoot)
             /\ sd_shown # DirectoryScanView(scan_directory(MissingRoot))
    /\ (sd_result # NoScan /\ sd_root = MissingRoot)
          => /\ sd_result.status = "returned"
             /\ sd_result.is_none
             /\ sd_shown = [line |-> "invalid"]
             /\ sd_result # scan_directory(EmptyDir)
             /\ sd_shown # DirectoryScanView(scan_directory(EmptyDir))

\* an empty directory has been scanned and the view has printed its line
C13_Witness ==
    /\ sd_root = EmptyDir
    /\ sd_result.status = "returned"
    /\ sd_shown.line = "scanned"

\* C14: for a root that exists but is a regular file, scan_directory
\* returns the not-found result of a missing path: it does not raise and
\* does not return an empty-directory result.
C14_FileRootIsNotFound ==
    (sd_result # NoScan /\ sd_root.kind = "file")
       => /\ sd_result.status = "returned"
          /\ sd_result.is_none

\* the entries none of whose status reads fails
Sound(entries) == SelectSeq(entries, LAMBDA e : e.fault_at = 0)

\* C15: an entry one of whose status reads raises a permission fault or a
\* not-found fault is skipped: the scan completes and returns a result, the
\* entry adds nothing to count and nothing to total_size, and every other
\* file or directory entry is counted.
C15_FaultyEntrySkipped ==
    ScannedDir
       => /\ sd_result.status = "returned"
          /\ ~sd_result.is_none
          /\ sd_result.count =
                Len(SelectSeq(Sound(sd_root.entries),
                              LAMBDA e : e.type \in {"file", "dir"}))
          /\ sd_result.total_size =
                SumSeq([i \in 1..Len(Sound(sd_root.entries)) |->
                           Sound(sd_root.entries)[i].size])

(***************************************************************************)
(* SystemDiagnostics.get_disk_info (src/diagnostics.py, and the copy in    *)
(* src/__main__.py).                                                       *)
(*                                                                         *)
(* A mounted partition is [device, usage]: usage is what                   *)
(* psutil.disk_usage(mountpoint) does, "ok", "perm" (PermissionError) or   *)
(* "other" (another OSError, e.g. a mount point that is gone).             *)
(***************************************************************************)
\* up to MaxParts mounted partitions
MaxParts == 4

DiskCopies == {"diagnostics", "main"}

\* the partition the loop goes to after "except PermissionError: continue"
AfterPermissionError_Break(partitions, i) == Len(partitions) + 1

AfterPermissionError(partitions, i) == i + 1

\* disk_info.append({'device': partition.device, ...})
DiskRecord(partition) == [device |-> partition.device]

RECURSIVE diagnostics_get_disk_info_loop(_, _, _)
diagnostics_get_disk_info_loop(partitions, i, disk_info) ==
    IF i > Len(partitions) THEN [status |-> "returned", list |-> disk_info]
    ELSE CASE partitions[i].usage = "ok" ->
                 diagnostics_get_disk_info_loop(partitions, i + 1,
                     Append(disk_info, DiskRecord(partitions[i])))
           [] partitions[i].usage = "perm" ->
                 diagnostics_get_disk_info_loop(partitions,
                     AfterPermissionError(partitions, i), disk_info)
           [] OTHER -> [status |-> "raised", list |-> <<>>]

diagnostics_get_disk_info(partitions) ==
    diagnostics_get_disk_info_loop(partitions, 1, <<>>)

RECURSIVE main_get_disk_info_loop(_, _, _)
main_get_disk_info_loop(partitions, i, disk_info) ==
    IF i > Len(partitions) THEN [status |-> "returned", list |-> disk_info]
    ELSE CASE partitions[i].usage = "ok" ->
                 main_get_disk_info_loop(partitions, i + 1,
                     Append(disk_info, DiskRecord(partitions[i])))
           [] partitions[i].usage = "perm" ->
                 main_get_disk_info_loop(partitions,
                     AfterPermissionError(partitions, i), disk_info)
           [] OTHER -> [status |-> "raised", list |-> <<>>]

main_get_disk_info(partitions) == main_get_disk_info_loop(partitions, 1, <<>>)

(***************************************************************************)
(* Specification SpecDisk: get_disk_info applied to partition lists.       *)
(***************************************************************************)
PartitionLists ==
    { [i \in 1..Len(l) |-> [device |-> i, usage |-> l[i]]] :
         l \in UNION { [1..k -> {"ok", "perm", "other"}] : k \in 0..MaxParts } }

NoDiskResult == [status |-> "none"]

DiskInit ==
    /\ di_partitions \in PartitionLists
    /\ di_result = [c \in DiskCopies |-> NoDiskResult]
    /\ FmtIdle
    /\ RunIdle
    /\ ProcIdle
    /\ DirIdle
    /\ NetIdle
    /\ FwIdle
    /\ PortIdle

GetDiskInfoDiagnostics ==
    /\ di_result["diagnostics"] = NoDiskResult
    /\ di_result' = [di_result EXCEPT
                        !["diagnostics"] = diagnostics_get_disk_info(di_partitions)]
    /\ UNCHANGED <<di_partitions, nonDiskVars>>

GetDiskInfoMain ==
    /\ di_result["main"] = NoDiskResult
    /\ di_result' = [di_result EXCEPT
                        !["main"] = main_get_disk_info(di_partitions)]
    /\ UNCHANGED <<di_partitions, nonDiskVars>>

DiskNext ==
    \/ GetDiskInfoDiagnostics
    \/ GetDiskInfoMain

SpecDisk == DiskInit /\ [][DiskNext]_vars

\* the partitions whose usage read succeeds, in enumeration order
ReadablePartitions(partitions) ==
    LET kept == SelectSeq(partitions, LAMBDA q : q.usage = "ok")
    IN  [i \in 1..Len(kept) |-> [device |-> kept[i].device]]

\* C16: when the only usage faults are permission faults, get_disk_info
\* does not raise and returns, in enumeration order, exactly one record for
\* each partition whose usage read succeeds and none for a partition whose
\* read raises the permission fault, wherever the failing partitions are.
C16_DeniedPartitionSkipped ==
    \A c \in DiskCopies :
        (/\ di_result[c] # NoDiskResult
         /\ \A i \in 1..Len(di_partitions) : di_partitions[i].usage # "other")
           => /\ di_result[c].status = "returned"
              /\ di_result[c].list = ReadablePartitions(di_partitions)

\* a denied partition first and in the middle, readable ones after each
C16_Witness ==
    /\ Len(di_partitions) = 4
    /\ di_partitions[1].usage = "perm"
    /\ di_partitions[2].usage = "ok"
    /\ di_partitions[3].usage = "perm"
    /\ di_partitions[4].usage = "ok"
    /\ \A c \in DiskCopies :
          /\ di_result[c].status = "returned"
          /\ Len(di_result[c].list) = 2

(***************************************************************************)
(* SystemRecon.scan_network_connections.                                   *)
(*                                                                         *)
(* The host answers psutil.net_connections(kind='inet') with a list of     *)
(* connections or denies it (psutil.AccessDenied); narrower says what it   *)
(* would answer to the narrower kinds, which the code never asks for.  A   *)
(* connection is [laddr, raddr, status, pid]; raddr is <<>> when the       *)
(* connection has no remote address, else <<ip, port>>.                    *)
(***************************************************************************)
\* every list of up to MaxConns connections, and patterned lists of up to
\* ActiveCount + MaxExtra connections
MaxConns == 3

\* active[:20]
ActiveCount == 20

\* the kinds of psutil.net_connections narrower than 'inet'
NarrowKinds == <<"inet4", "inet6", "tcp", "udp">>

\* f"{addr.ip}:{addr.port}"
AddrText(addr) == <<addr[1], ":", addr[2]>>

\* if conn.status == 'ESTABLISHED'
IsActive_NotListening(conn) == conn.status # "LISTEN"

IsActive(conn) == conn.status = "ESTABLISHED"

\* the dict appended for one connection
ActiveRecord(conn) ==
    [local  |-> AddrText(conn.laddr),
     remote |-> IF conn.raddr # <<>> THEN AddrText(conn.raddr) ELSE "N/A",
     status |-> conn.status,
     pid    |-> conn.pid]

RECURSIVE ActiveLoop(_, _, _)
ActiveLoop(connections, i, active) ==
    IF i > Len(connections) THEN active
    ELSE ActiveLoop(connections, i + 1,
                    IF IsActive(connections[i])
                    THEN Append(active, ActiveRecord(connections[i]))
                    ELSE active)

scan_network_connections(query) ==
    IF query.denied THEN [status |-> "raised", list |-> <<>>]
    ELSE LET active == ActiveLoop(query.connections, 1, <<>>)
         IN  [status |-> "returned",
              list   |-> SubSeq(active, 1, Min(ActiveCount, Len(active)))]

(***************************************************************************)
(* Specification SpecNet: scan_network_connections on a host.              *)
(***************************************************************************)
Statuses == {"ESTABLISHED", "LISTEN", "TIME_WAIT"}

Conn(i, status, remote) ==
    [laddr  |-> <<"10.0.0.1", i>>,
     raddr  |-> IF remote THEN <<"10.0.0.2", i>> ELSE <<>>,
     status |-> status,
     pid    |-> i]

ShortConnLists ==
    { [i \in 1..Len(l) |-> Conn(i, l[i].status, l[i].remote)] :
         l \in UNION { [1..k -> [status : Statuses, remote : BOOLEAN]]
                       : k \in 0..MaxConns } }

\* every m-th connection is not ESTABLISHED, every r-th has no remote address
PatternConnList(len, m, r) ==
    [i \in 1..len |->
        Conn(i, IF i % m = 0 THEN "LISTEN" ELSE "ESTABLISHED", i % r # 0)]

ConnLists ==
    ShortConnLists
    \cup { PatternConnList(len, m, r) :
              len \in (ActiveCount - 1)..(ActiveCount + MaxExtra),
              m \in {2, ActiveCount \div 2 + 2, ActiveCount + MaxExtra + 1}, r \in {1, 3} }

Hosts ==
    [denied : {FALSE}, connections : ConnLists,
     narrower : {[k \in 1..Len(NarrowKinds) |-> "some"]}]
    \cup [denied : {TRUE}, connections : {<<>>},
          narrower : [1..Len(NarrowKinds) -> {"denied", "empty", "some"}]]

NoNetResult == [status |-> "none"]

NetInit ==
    /\ nc_query \in Hosts
    /\ nc_result = NoNetResult
    /\ FmtIdle
    /\ RunIdle
    /\ ProcIdle
    /\ DirIdle
    /\ DiskIdle
    /\ FwIdle
    /\ PortIdle

ScanNetworkConnections ==
    /\ nc_result = NoNetResult
    /\ nc_result' = scan_network_connections(nc_query)
    /\ UNCHANGED <<nc_query, nonNetVars>>

NetNext == ScanNetworkConnections

SpecNet == NetInit /\ [][NetNext]_vars

\* C17: when the broad inet query is denied, connection enumeration tries
\* the narrower query kinds in a fixed order and returns the first
\* non-empty result set: it raises no error, and its result is empty only
\* when every narrower query is denied or empty.
C17_DeniedFallsBack ==
    (nc_result # NoNetResult /\ nc_query.denied)
       => /\ nc_result.status = "returned"
          /\ (nc_result.list = <<>>)
                <=> \A k \in 1..Len(NarrowKinds) : nc_query.narrower[k] # "some"

\* the place in the list of the i-th ESTABLISHED connection
NthEstablished(connections, i) ==
    CHOOSE j \in 1..Len(connections) :
        /\ connections[j].status = "ESTABLISHED"
        /\ Cardinality({k \in 1..j : connections[k].status = "ESTABLISHED"}) = i

\* C18: for a list of inet connections, scan_network_connections returns
\* the ESTABLISHED ones only, in enumeration order, the first 20 of them and
\* none of these left out; the remote endpoint of a record is 'N/A' exactly
\* when the connection has no remote address.
C18_EstablishedFirst20 ==
    LET l == nc_query.connections
        r == nc_result.list
        n == Cardinality({k \in 1..Len(l) : l[k].status = "ESTABLISHED"})
    IN  (nc_result # NoNetResult /\ ~nc_query.denied)
           => /\ nc_result.status = "returned"
              /\ Len(r) = Min(n, ActiveCount)
              /\ \A i \in 1..Len(r) :
                    LET c == l[NthEstablished(l, i)]
                    IN  /\ r[i].status = "ESTABLISHED"
                        /\ r[i].pid = c.pid
                        /\ r[i].local = <<c.laddr[1], ":", c.laddr[2]>>
                        /\ (r[i].remote = "N/A") <=> (c.raddr = <<>>)
                        /\ c.raddr # <<>>
                              => r[i].remote = <<c.raddr[1], ":", c.raddr[2]>>

\* more than 20 ESTABLISHED connections among others, some without a
\* remote address
C18_Witness ==
    /\ nc_result.status = "returned"
    /\ Len(nc_result.list) = ActiveCount
    /\ \E k \in 1..Len(nc_query.connections) :
          nc_query.connections[k].status # "ESTABLISHED"
    /\ Cardinality({k \in 1..Len(nc_query.connections) :
                       nc_query.connections[k].status = "ESTABLISHED"}) > ActiveCount
    /\ \E i \in 1..ActiveCount : nc_result.list[i].remote = "N/A"
    /\ \E i \in 1..ActiveCount : nc_result.list[i].remote # "N/A"

(***************************************************************************)
(* FirmwareDiagnostics.get_firmware_info.                                  *)
(*                                                                         *)
(* fw_probe is the host: platform.system() and what running the hardware   *)
(* description command (dmidecode on Linux, system_profiler on Darwin)     *)
(* does: "exit0", "nonzero" (it ran and exited with another status, as     *)
(* dmidecode does without root), "timeout" (TimeoutExpired), "missing"     *)
(* (FileNotFoundError), "permission" (PermissionError on the binary).  A   *)
(* returned dict is [status, keys, and one field per key it can have].     *)
(***************************************************************************)
Systems == {"Linux", "Darwin", "Windows"}

ProbeOutcomes == {"exit0", "nonzero", "timeout", "missing", "permission"}

RequiresRoot == "Requires root privileges"

NotAvailable == "Not available"

\* firmware_data = {'platform': ..., 'machine': ..., 'processor': ...}
firmware_data(system) ==
    [status |-> "returned", keys |-> {"platform", "machine", "processor"},
     platform |-> system, bios_output |-> "", hardware_output |-> ""]

\* what the Linux branch does when dmidecode exits with a non-zero status:
\* nothing, the dict keeps its three fields
linux_nonzero(data) == data

linux_firmware(data, probe) ==
    CASE probe.outcome = "exit0" ->
            [data EXCEPT !.keys = @ \cup {"bios_output"},
                         !.bios_output = probe.stdout]
      [] probe.outcome = "nonzero" -> linux_nonzero(data)
      [] OTHER -> \* except (TimeoutExpired, FileNotFoundError, PermissionError)
            [data EXCEPT !.keys = @ \cup {"bios_output"},
                         !.bios_output = RequiresRoot]

darwin_firmware(data, probe) ==
    CASE probe.outcome = "exit0" ->
            [data EXCEPT !.keys = @ \cup {"hardware_output"},
                         !.hardware_output = probe.stdout]
      [] probe.outcome = "nonzero" -> data
      [] probe.outcome \in {"timeout", "missing"} ->
            [data EXCEPT !.keys = @ \cup {"hardware_output"},
                         !.hardware_output = NotAvailable]
      [] OTHER -> [status |-> "raised"]

get_firmware_info(probe) ==
    CASE probe.system = "Linux"  -> linux_firmware(firmware_data("Linux"), probe)
      [] probe.system = "Darwin" -> darwin_firmware(firmware_data("Darwin"), probe)
      [] OTHER -> firmware_data(probe.system)

(***************************************************************************)
(* FirmwareDiagnostics.get_software_inventory.                             *)
(*                                                                         *)
(* sw_probes says, for each package manager, what running its list command *)
(* does: [outcome, stdout] with the outcomes of above; stdout is a         *)
(* sequence of characters.  The result carries, besides the list of        *)
(* packages, the commands that were run, in order.                         *)
(***************************************************************************)
\* result.stdout[:1000]
SampleLen == 1000

\* package_managers of the Linux branch, in order
package_managers == <<"dpkg", "rpm", "pacman">>

Managers == {"dpkg", "rpm", "pacman", "brew"}

\* text[:n]
Prefix(text, n) == SubSeq(text, 1, Min(n, Len(text)))

\* len(text.strip().split('\n')): the text without the newlines at its
\* ends has one line more than it has newlines (the texts here hold no
\* other white space)
LineCount(text) ==
    LET inner == {i \in 1..Len(text) : text[i] # "\n"}
    IN  IF inner = {} THEN 1
        ELSE LET lo == CHOOSE i \in 1..Len(text) :
                            /\ text[i] # "\n"
                            /\ \A j \in 1..(i - 1) : text[j] = "\n"
                 hi == CHOOSE i \in 1..Len(text) :
                            /\ text[i] # "\n"
                            /\ \A j \in (i + 1)..Len(text) : text[j] = "\n"
             IN  Cardinality({i \in lo..hi : text[i] = "\n"}) + 1

\* packages.append({'manager': ..., 'count': ..., 'output': ...})
PackageRecord(manager, stdout) ==
    [manager |-> manager, count |-> LineCount(stdout),
     output |-> Prefix(stdout, SampleLen)]

\* the manager the loop goes to after a probe exited with status 0: break
AfterExitZero_Continue(i) == i + 1

AfterExitZero(i) == Len(package_managers) + 1

RECURSIVE linux_inventory_loop(_, _, _, _)
linux_inventory_loop(probes, i, packages, ran) ==
    IF i > Len(package_managers)
    THEN [status |-> "returned", packages |-> packages, ran |-> ran]
    ELSE LET pm    == package_managers[i]
             probe == probes[pm]
         IN  CASE probe.outcome = "exit0" ->
                     linux_inventory_loop(probes, AfterExitZero(i),
                         Append(packages, PackageRecord(pm, probe.stdout)),
                         Append(ran, pm))
               [] probe.outcome \in {"nonzero", "timeout", "missing"} ->
                     linux_inventory_loop(probes, i + 1, packages,
                                          Append(ran, pm))
               [] OTHER -> \* PermissionError is not caught
                     [status |-> "raised", packages |-> <<>>,
                      ran |-> Append(ran, pm)]

darwin_inventory(probes) ==
    CASE probes["brew"].outcome = "exit0" ->
            [status |-> "returned",
             packages |-> <<PackageRecord("homebrew", probes["brew"].stdout)>>,
             ran |-> <<"brew">>]
      [] probes["brew"].outcome \in {"nonzero", "timeout", "missing"} ->
            [status |-> "returned", packages |-> <<>>, ran |-> <<"brew">>]
      [] OTHER -> [status |-> "raised", packages |-> <<>>, ran |-> <<"brew">>]

get_software_inventory(system, probes) ==
    CASE system = "Linux"  -> linux_inventory_loop(probes, 1, <<>>, <<>>)
      [] system = "Darwin" -> darwin_inventory(probes)
      [] OTHER -> [status |-> "returned", packages |-> <<>>, ran |-> <<>>]

(***************************************************************************)
(* Specification SpecFw: the two methods of FirmwareDiagnostics on a host. *)
(***************************************************************************)
\* a list command prints a newline after every LineLen - 1 characters
LineLen == 40

\* the output of a manager's list command, n characters long
Text(manager, n) ==
    [i \in 1..n |-> IF i % LineLen = 0 THEN "\n" ELSE manager]

TextLens == {0, 1} \cup ((SampleLen - 1)..(SampleLen + MaxExtra))

Probes(manager) ==
    [outcome : ProbeOutcomes \ {"exit0"}, stdout : {<<>>}]
    \cup [outcome : {"exit0"}, stdout : {Text(manager, n) : n \in TextLens}]

NotInstalled == [outcome |-> "missing", stdout |-> <<>>]

\* the probes of a system of each kind: a manager of another kind of
\* system is not installed
ProbeTables(system) ==
    CASE system = "Linux" ->
            { [m \in Managers |->
                  CASE m = "dpkg"   -> a
                    [] m = "rpm"    -> b
                    [] m = "pacman" -> c
                    [] OTHER        -> NotInstalled] :
                 a \in Probes("dpkg"), b \in Probes("rpm"),
                 c \in Probes("pacman") }
      [] system = "Darwin" ->
            { [m \in Managers |-> IF m = "brew" THEN a ELSE NotInstalled] :
                 a \in Probes("brew") }
      [] OTHER -> { [m \in Managers |-> NotInstalled] }

FirmwareProbes ==
    [system : {"Linux", "Darwin"}, outcome : ProbeOutcomes \ {"exit0"},
     stdout : {""}]
    \cup [system : {"Linux", "Darwin"}, outcome : {"exit0"},
          stdout : {"", "# dmidecode 3.3"}]
    \cup [system : {"Windows"}, outcome : {"missing"}, stdout : {""}]

NoFwResult == [status |-> "none"]

FwInit ==
    /\ fw_probe \in FirmwareProbes
    /\ sw_probes \in ProbeTables(fw_probe.system)
    /\ fw_result = NoFwResult
    /\ sw_result = NoFwResult
    /\ sw_shown = [line |-> "none"]
    /\ FmtIdle
    /\ RunIdle
    /\ ProcIdle
    /\ DirIdle
    /\ DiskIdle
    /\ NetIdle
    /\ PortIdle

GetFirmwareInfo ==
    /\ fw_result = NoFwResult
    /\ fw_result' = get_firmware_info(fw_probe)
    /\ UNCHANGED <<fw_probe, sw_probes, sw_result, sw_shown, nonFwVars>>

\* the software-inventory view: "if not packages:" prints the message,
\* else a table with a row per entry; a fault of get_software_inventory
\* leaves the view and run() prints "Error: ..."
SoftwareInventoryView(result) ==
    IF result.status = "raised" THEN [line |-> "error"]
    ELSE IF result.packages = <<>>
    THEN [line |-> "No package managers found or accessible"]
    ELSE [line |-> "table",
          rows |-> [i \in 1..Len(result.packages) |->
                       <<result.packages[i].manager, result.packages[i].count>>]]

\* the operator selects the software inventory
GetSoftwareInventory ==
    /\ sw_result = NoFwResult
    /\ sw_result' = get_software_inventory(fw_probe.system, sw_probes)
    /\ sw_shown' = SoftwareInventoryView(
                      get_software_inventory(fw_probe.system, sw_probes))
    /\ UNCHANGED <<fw_probe, sw_probes, fw_result, nonFwVars>>

FwNext ==
    \/ GetFirmwareInfo
    \/ GetSoftwareInventory

SpecFw == FwInit /\ [][FwNext]_vars

\* C19: on Linux, get_firmware_info returns without raising for every
\* outcome of the hardware-description command; the record has platform,
\* machine and processor, and its bios_output field is the command's output
\* on exit 0 and the fixed marker on timeout, absence of the tool or denial
\* (a permission fault on the binary, or the tool exiting non-zero because
\* it was denied).
C19_FirmwareNeverFails ==
    (fw_result # NoFwResult /\ fw_probe.system = "Linux")
       => /\ fw_result.status = "returned"
          /\ {"platform", "machine", "processor"} \subseteq fw_result.keys
          /\ "bios_output" \in fw_result.keys
          /\ fw_probe.outcome = "exit0" => fw_result.bios_output = fw_probe.stdout
          /\ fw_probe.outcome # "exit0" => fw_result.bios_output = RequiresRoot

\* the first manager in the probing order whose probe exits with status 0
\* (0 when there is none)
FirstExitZero ==
    LET good == {i \in 1..Len(package_managers) :
                    sw_probes[package_managers[i]].outcome = "exit0"}
    IN  IF good = {} THEN 0 ELSE CHOOSE i \in good : \A j \in good : i <= j

\* C20: on Linux, when the managers before the first one whose probe exits
\* with status 0 fail by a non-zero exit, a missing binary or a timeout,
\* get_software_inventory runs the probes in the order dpkg, rpm, pacman up
\* to that manager and no further, and returns exactly one entry, for that
\* manager, whose output sample is the first 1000 characters of the probe's
\* output; a returned result never has more than one entry.
C20_FirstSuccessOnly ==
    LET k == FirstExitZero
        out == sw_probes[package_managers[k]].stdout
    IN  (sw_result # NoFwResult /\ fw_probe.system = "Linux")
           => /\ Len(sw_result.packages) <= 1
              /\ (/\ k > 0
                  /\ \A i \in 1..(k - 1) :
                        sw_probes[package_managers[i]].outcome
                           \in {"nonzero", "missing", "timeout"})
                    => /\ sw_result.status = "returned"
                       /\ sw_result.ran = SubSeq(<<"dpkg", "rpm", "pacman">>, 1, k)
                       /\ Len(sw_result.packages) = 1
                       /\ sw_result.packages[1].manager = package_managers[k]
                       /\ Len(sw_result.packages[1].output) = Min(1000, Len(out))
                       /\ \A i \in 1..Len(sw_result.packages[1].output) :
                             sw_result.packages[1].output[i] = out[i]

\* dpkg is missing, rpm and pacman both succeed, rpm's output is longer
\* than the sample
C20_Witness ==
    /\ fw_probe.system = "Linux"
    /\ sw_probes["dpkg"].outcome = "missing"
    /\ sw_probes["rpm"].outcome = "exit0"
    /\ Len(sw_probes["rpm"].stdout) > SampleLen
    /\ sw_probes["pacman"].outcome = "exit0"
    /\ sw_result.status = "returned"
    /\ sw_result.ran = <<"dpkg", "rpm">>
    /\ Len(sw_result.packages) = 1

\* no probe of a package manager of this system exits with status 0
NoProbeSucceeds ==
    \A m \in Managers : sw_probes[m].outcome # "exit0"

\* C21: when no package-manager probe succeeds, whatever the failure of
\* each probe (timeout, missing binary, non-zero exit, permission fault on
\* the binary), get_software_inventory returns an empty result without
\* raising and the software-inventory view shows the 'no package managers'
\* message, not an error.
C21_NoManagerIsEmpty ==
    (sw_result # NoFwResult /\ NoProbeSucceeds)
       => /\ sw_result.status = "returned"
          /\ sw_result.packages = <<>>
          /\ sw_shown = [line |-> "No package managers found or accessible"]

(***************************************************************************)
(* The listening-port views.                                               *)
(*                                                                         *)
(* Both front ends call srv_recon.scan_listening_ports() and show what it  *)
(* returned.  lp_listening is that return value: None, or a list of port   *)
(* records [address, port, has_pid, pid, protocol, has_name, name] (pid    *)
(* and process_name are read with .get, so either key may be absent; a     *)
(* pid may be None).  lp_shown is what each front end has shown.           *)
(***************************************************************************)

\* the most ports held by a short list
MaxPorts == 2

\* for port in listening[:20]
ReconPortRows == 20

\* for port in listening[:15]
TuiPortRows == 15

\* port.get('process_name', 'N/A')[:25]
PortNameLen == 25

\* "if listening:" / "if not listening:": None and the empty list are false
Listed_Always(listening) == TRUE

Listed(listening) == ~listening.is_none /\ listening.ports # <<>>

\* str(x) of a pid or port number, or of None
PyStr(x) == IF x = NoneVal THEN "None" ELSE Str(NatLimbs(x))

\* str(port.get('pid', 'N/A'))
PidCell(port) == IF port.has_pid THEN PyStr(port.pid) ELSE "N/A"

\* port.get('process_name', 'N/A')[:25]
NameCell(port) ==
    Prefix(IF port.has_name THEN port.name ELSE <<"N", "/", "A">>, PortNameLen)

\* the one row added when nothing is listening
PlaceholderRow == <<"No listening ports found", "", "", "", "">>

ReconPortRow(port) ==
    <<port.address, PyStr(port.port), PidCell(port), port.protocol, NameCell(port)>>

TuiPortRow(port) ==
    <<port.address, PyStr(port.port), PidCell(port), port.protocol>>

\* get_listening_ports of the auto-refresh front end: the table it returns;
\* slicing None raises TypeError
get_listening_ports(listening) ==
    IF ~Listed(listening)
    THEN [status |-> "table", rows |-> <<PlaceholderRow>>]
    ELSE IF listening.is_none
    THEN [status |-> "raised", fault |-> "TypeError"]
    ELSE LET shown == Prefix(listening.ports, ReconPortRows)
         IN  [status |-> "table",
              rows |-> [i \in 1..Len(shown) |-> ReconPortRow(shown[i])]]

\* the listening-port part of show_server_recon of the menu front end: a
\* table is printed only for a non-empty list
show_server_recon(listening) ==
    IF ~Listed(listening)
    THEN [status |-> "no table"]
    ELSE IF listening.is_none
    THEN [status |-> "raised", fault |-> "TypeError"]
    ELSE LET shown == Prefix(listening.ports, TuiPortRows)
         IN  [status |-> "table",
              rows |-> [i \in 1..Len(shown) |-> TuiPortRow(shown[i])]]

PortName(n) == [i \in 1..n |-> "x"]

PortSamples ==
    { [address |-> "0.0.0.0", port |-> 22, has_pid |-> TRUE, pid |-> 7,
       protocol |-> "TCP", has_name |-> TRUE, name |-> PortName(PortNameLen + 1)],
      [address |-> "0.0.0.0", port |-> 80, has_pid |-> TRUE, pid |-> NoneVal,
       protocol |-> "TCP", has_name |-> FALSE, name |-> <<>>],
      [address |-> "::", port |-> 53, has_pid |-> FALSE, pid |-> NoneVal,
       protocol |-> "UDP", has_name |-> TRUE, name |-> PortName(1)],
      [address |-> "::", port |-> 8080, has_pid |-> TRUE, pid |-> 300,
       protocol |-> "TCP", has_name |-> TRUE, name |-> PortName(PortNameLen)],
      [address |-> "127.0.0.1", port |-> 65535, has_pid |-> TRUE, pid |-> 1,
       protocol |-> "UDP", has_name |-> TRUE, name |-> <<>>] }

ShortPortLists == UNION { [1..k -> PortSamples] : k \in 0..MaxPorts }

\* a long list: ports 1, 2, ..., n of one process
PatternPortList(n) ==
    [i \in 1..n |-> [address |-> "0.0.0.0", port |-> i, has_pid |-> TRUE,
                     pid |-> 7, protocol |-> "TCP", has_name |-> TRUE,
                     name |-> PortName(3)]]

LongPortLens ==
    {TuiPortRows, TuiPortRows + 1, ReconPortRows, ReconPortRows + MaxPorts}

Listenings ==
    {[is_none |-> TRUE, ports |-> <<>>]}
    \cup [is_none : {FALSE},
          ports : ShortPortLists \cup {PatternPortList(n) : n \in LongPortLens}]

NoPortView == [status |-> "none"]

FrontEnds == {"recon", "tui"}

PortInit ==
    /\ lp_listening \in Listenings
    /\ lp_shown = [v \in FrontEnds |-> NoPortView]
    /\ FmtIdle
    /\ RunIdle
    /\ ProcIdle
    /\ DirIdle
    /\ DiskIdle
    /\ NetIdle
    /\ FwIdle

\* the auto-refresh front end builds its listening-port table
GetListeningPorts ==
    /\ lp_shown["recon"] = NoPortView
    /\ lp_shown' = [lp_shown EXCEPT !["recon"] = get_listening_ports(lp_listening)]
    /\ UNCHANGED <<lp_listening, nonPortVars>>

\* the menu front end shows its server view
ShowServerRecon ==
    /\ lp_shown["tui"] = NoPortView
    /\ lp_shown' = [lp_shown EXCEPT !["tui"] = show_server_recon(lp_listening)]
    /\ UNCHANGED <<lp_listening, nonPortVars>>

PortNext ==
    \/ GetListeningPorts
    \/ ShowServerRecon

SpecPorts == PortInit /\ [][PortNext]_vars

\* nothing is listening: the collector returned an empty list
NothingListening == ~lp_listening.is_none /\ lp_listening.ports = <<>>

\* the port rows a front end has shown
PortRowsShown(v) ==
    IF lp_shown[v].status = "table" THEN lp_shown[v].rows ELSE <<>>

\* C22 as stated: when the set of listening connections is empty, the
\* listening-port view raises no fault and reports zero rows.
C22_EmptyReportsZeroRows ==
    NothingListening
       => \A v \in FrontEnds :
             lp_shown[v] # NoPortView
                => lp_shown[v].status # "raised" /\ PortRowsShown(v) = <<>>

\* C22 amended: when the set of listening connections is empty, the
\* listening-port view raises no fault and reports no port: the auto-refresh
\* front end's table holds the single row "No listening ports found", the
\* menu front end prints no port table.
C22_EmptyShowsNoPort ==
    NothingListening
       => /\ lp_shown["recon"] # NoPortView
                => lp_shown["recon"] = [status |-> "table", rows |-> <<PlaceholderRow>>]
          /\ lp_shown["tui"] # NoPortView
                => lp_shown["tui"] = [status |-> "no table"]

\* both front ends have shown their view of an empty list
C22_Witness ==
    /\ NothingListening
    /\ lp_shown["recon"].status = "table"
    /\ lp_shown["tui"].status = "no table"

(***************************************************************************)
(* The render lock over whole runs (SpecRun).                              *)
(***************************************************************************)

\* a step of run() that is not an interrupt
RunStep ==
    \/ Quit
    \/ SelectAutoRefresh
    \/ SelectStatic
    \/ SelectInvalid
    \/ InvalidSleepDone
    \/ GvEnter
    \/ CollectOk
    \/ CollectDenied
    \/ CollectFault
    \/ GvExit
    \/ Sleep
    \/ ViewDone
    \/ Enter

\* generate_view is about to be called: by Live(self.generate_view(), ...)
\* or by live.update(self.generate_view()) after a full sleep
AboutToRender ==
    \/ pc = "ar_start"
    \/ pc = "ar_sleep" /\ slept = refresh_interval

\* C23: the render lock is released on every exit path of generate_view
\* (normal return, a fault raised by a collector, an interrupt inside the
\* locked section): the lock is held only inside generate_view, it is free
\* whenever the main menu is shown, an auto-refresh view that is about to
\* render can always acquire it, and while run() has not ended there is
\* always a step it can take.
C23_LockReleasedOnEveryExit ==
    /\ [][ (pc = "gv" /\ pc' # "gv") => (lock' = "free" /\ in_gv' = 0) ]_vars
    /\ [](lock = "held" => pc = "gv")
    /\ [](pc = "menu" => lock = "free")
    /\ [](AboutToRender => ENABLED GvEnter)
    /\ [](pc \notin {"done", "escaped"} => ENABLED RunStep)

\* the menu of the auto-refresh TUI after an interrupt inside generate_view
C23_Witness ==
    /\ variant = "recon"
    /\ pc = "menu"
    /\ lock = "free"
    /\ last = [ev |-> "interrupt", at |-> "gv"]

\* C24: in the auto-refresh TUI, run() ends only because quit was selected:
\* an interrupt or fault at any point of the loop (menu prompt, auto-refresh
\* view, static view, its "Press Enter" prompt, the "Press Enter" prompt
\* after an error message) is handled inside run() and no exception escapes
\* run().
C24_RunEndsOnlyByQuit ==
    variant = "recon"
       => /\ pc # "escaped"
          /\ pc = "done" => (last.ev = "quit" /\ IsQuit(choice) /\ ~running)

\* the sizes of the items of type file of a returned result
FileItemSizes(items) ==
    LET files == SelectSeq(items, LAMBDA it : it.type = "file")
    IN  [i \in 1..Len(files) |-> files[i].size]

\* C25: every result returned by scan_directory is internally consistent:
\* count is the number of items and total_size is the sum of the sizes of
\* the items of type file, also when a status read of an entry fails after
\* its size was read and before its modification time was.
C25_ResultIsConsistent ==
    (sd_result # NoScan /\ sd_result.status = "returned" /\ ~sd_result.is_none)
       => /\ sd_result.count = Len(sd_result.items)
          /\ sd_result.total_size = SumSeq(FileItemSizes(sd_result.items))

====
